---- MODULE Spec2Model ----
(***************************************************************************)
(* kube-endpoint-manager: reconciliation of one Kubernetes Endpoints       *)
(* resource against the instances an OpenStack project lists.              *)
(*                                                                         *)
(* The model covers kubernetes.Endpoint (the cluster store), openstack.    *)
(* Endpoint / Endpoints (the external inventory with its filters) and      *)
(* __main__.main / sync_loop (startup and the tick).  The Kubernetes API   *)
(* server and the OpenStack compute API are the environment: other actors  *)
(* may change the resource and the instance list between any two calls,    *)
(* and any call may fail.                                                  *)
(***************************************************************************)
EXTENDS Integers, Sequences, FiniteSets, TLC

VARIABLES
    filters,    \* Endpoints._filters, fixed by main() at startup
    srv,        \* the Endpoints resource as the API server holds it
    servers,    \* the instances the compute API lists, in listing order
    snapshot,   \* kubernetes.Endpoint._endpoint
    endpoints,  \* openstack.Endpoints._endpoints
    pc,         \* position of the process in main() / sync_loop()
    raised,     \* the exception the last call raised, "none" while calls return
    started,    \* sync_loop has been entered
    report,     \* the verdict the current tick logged, and the cluster list it compared
    tickPatch,  \* the patch call issued in the current tick (or by the last call)
    calls,      \* the setter calls made in a row on the store (direct use)
    faults,     \* the environment may fail calls and change state
    tickLog,    \* the steps and backend calls of the current tick, in order
    diffed,     \* the latest call of diff() on the store (direct use)
    instances,  \* MetaSingleton.__singleton_instances
    built       \* the constructions of API client wrappers so far, in order

vars == <<filters, srv, servers, snapshot, endpoints, pc, raised, started,
          report, tickPatch, calls, faults, tickLog, diffed, instances, built>>

---------------------------------------------------------------------------
(* Bounds of the model.                                                    *)

\* longest instance list the compute API returns
MaxServers == 2

---------------------------------------------------------------------------
(* common.MetaSingleton: the API client wrappers.  An instance is known by *)
(* the arguments its __init__ ran with and by the serial of the call that  *)
(* created it.                                                             *)

ClientClasses == {"kubernetes._APIClient", "openstack._APIClient"}

NoInstance == [made |-> FALSE, args |-> "", serial |-> 0]

\* super().__call__(*args, **kwargs): a new object whose __init__ ran
NewInstance(args, serial) == [made |-> TRUE, args |-> args, serial |-> serial]

\* no class has an instance yet
NoInstances == [c \in ClientClasses |-> NoInstance]

\* a __call__ that constructs on every call
MetaSingletonCallAlwaysNew(registry, cls, args, serial) ==
    [registry EXCEPT ![cls] = NewInstance(args, serial)]

\* MetaSingleton.__call__: the registry after cls(*args); the call returns
\* the registry's entry for cls
MetaSingletonCall(registry, cls, args, serial) ==
    IF ~registry[cls].made
    THEN [registry EXCEPT ![cls] = NewInstance(args, serial)]
    ELSE registry

\* the record of one construction: the class, the arguments, what it got
Construction(registry, cls, args) ==
    [cls |-> cls, args |-> args, got |-> registry[cls]]

\* the registry and the constructions after cls(*args) returned
Constructed(registry, log, cls, args) ==
    LET after == MetaSingletonCall(registry, cls, args, Len(log) + 1)
    IN  [instances |-> after, built |-> Append(log, Construction(after, cls, args))]

\* the arguments main() constructs the clients with
ConfigArgs == "config"

---------------------------------------------------------------------------
(* Regular expressions.  A pattern is the string the code hands to         *)
(* re.match; Compiles says whether re accepts it and Lang which of the     *)
(* strings of the model re.match(pattern, s) matches.                      *)

NoneStr == ""

Malformed == {"^($"}

Compiles(p) == p \notin Malformed

Lang(p) ==
    CASE p = ".*service.name$"             -> {"service.name", "k8s.service.name"}
      [] p = ".*service.namespace$"        -> {"service.namespace"}
      [] p = ".*endpoint.network.name$"    -> {"endpoint.network.name"}
      [] p = ".*endpoint.network.version$" -> {"endpoint.network.version",
                                               "alt.endpoint.network.version"}
      [] p = "^web$"                       -> {"web"}
      [] p = "^prod$"                      -> {"prod"}
      [] p = "^web-.*"                     -> {"web-1", "web-2", "web-3"}
      [] OTHER                             -> {}

ReMatch(p, s) == s \in Lang(p)

---------------------------------------------------------------------------
(* openstack.Endpoints: the filters.  Results are "true", "false" or       *)
(* "raise" (re.error propagating out of re.match).                         *)

\* a pair that is decided by the first metadata item alone
MetadataPairFilterFirstItemOnly(md, fk, fv) ==
    IF md = <<>> THEN "false"
    ELSE IF ReMatch(fk, md[1][1]) /\ ReMatch(fv, md[1][2]) THEN "true" ELSE "false"

\* a pair that passes when no metadata key matches the key pattern
MetadataPairFilterKeyOptional(md, fk, fv) ==
    LET keys == {k \in DOMAIN md : ReMatch(fk, md[k][1])}
    IN  IF keys = {} THEN "true"
        ELSE LET k == CHOOSE j \in keys : \A l \in keys : j <= l
             IN  IF ReMatch(fv, md[k][2]) THEN "true" ELSE "false"

\* __filter(filter_key, filter_value) over server.metadata.items()
RECURSIVE MetadataPairFilter(_, _, _)
MetadataPairFilter(md, fk, fv) ==
    IF md = <<>> THEN "false"
    ELSE IF ~Compiles(fk) THEN "raise"
    ELSE IF ReMatch(fk, md[1][1])
         THEN IF ~Compiles(fv) THEN "raise"
              ELSE IF ReMatch(fv, md[1][2]) THEN "true" ELSE "false"
         ELSE MetadataPairFilter(Tail(md), fk, fv)

RECURSIVE _filter_server_metadata(_, _)
_filter_server_metadata(server, flt) ==
    IF flt = <<>> THEN "true"
    ELSE LET r == MetadataPairFilter(server.metadata, flt[1][1], flt[1][2])
         IN  IF r = "true" THEN _filter_server_metadata(server, Tail(flt)) ELSE r

_filter_server_name(server, flt) ==
    IF ~Compiles(flt) THEN "raise"
    ELSE IF ReMatch(flt, server.name) THEN "true" ELSE "false"

\* a dispatch that fails a category it has no method for
FilterCategoryUnknownFails(server, f) ==
    CASE f.cat = "name"     -> _filter_server_name(server, f.name)
      [] f.cat = "metadata" -> _filter_server_metadata(server, f.metadata)
      [] OTHER              -> "false"

\* getattr(self, f'_filter_server_{name}')(server, value), when hasattr
FilterCategory(server, f) ==
    CASE f.cat = "name"     -> _filter_server_name(server, f.name)
      [] f.cat = "metadata" -> _filter_server_metadata(server, f.metadata)
      [] OTHER              -> "true"

RECURSIVE IsEndpointServerFrom(_, _)
IsEndpointServerFrom(flts, server) ==
    IF flts = <<>> THEN "true"
    ELSE LET r == FilterCategory(server, flts[1])
         IN  IF r = "true" THEN IsEndpointServerFrom(Tail(flts), server) ELSE r

_is_endpoint_server(flts, server) == IsEndpointServerFrom(flts, server)

---------------------------------------------------------------------------
(* openstack.Endpoint: address resolution of one instance.                 *)

RECURSIVE FirstMetadataValue(_, _)
FirstMetadataValue(md, keyPattern) ==
    IF md = <<>> THEN NoneStr
    ELSE IF ReMatch(keyPattern, md[1][1]) THEN md[1][2]
    ELSE FirstMetadataValue(Tail(md), keyPattern)

_metadata_network_name(server) ==
    FirstMetadataValue(server.metadata, ".*endpoint.network.name$")

_metadata_network_version(server) ==
    FirstMetadataValue(server.metadata, ".*endpoint.network.version$")

\* a default of version 6
NetworkVersionDefault6(server) ==
    IF _metadata_network_version(server) = NoneStr THEN "6"
    ELSE _metadata_network_version(server)

\* self._metadata_network_version or "4"
NetworkVersion(server) ==
    IF _metadata_network_version(server) = NoneStr THEN "4"
    ELSE _metadata_network_version(server)

_is_network_version(server, address) == NetworkVersion(server) = address.version

NetworkNames(server) == {server.addresses[i].net : i \in DOMAIN server.addresses}

_has_named_network(server) ==
    IF _metadata_network_name(server) = NoneStr THEN FALSE
    ELSE _metadata_network_name(server) \in NetworkNames(server)

RECURSIVE FirstOfVersion(_, _)
FirstOfVersion(server, addrs) ==
    IF addrs = <<>> THEN NoneStr
    ELSE IF _is_network_version(server, addrs[1]) THEN addrs[1].addr
    ELSE FirstOfVersion(server, Tail(addrs))

RECURSIVE FirstOverNetworks(_, _)
FirstOverNetworks(server, nets) ==
    IF nets = <<>> THEN NoneStr
    ELSE LET a == FirstOfVersion(server, nets[1].addrs)
         IN  IF a # NoneStr THEN a ELSE FirstOverNetworks(server, Tail(nets))

NamedNetwork(server) ==
    LET i == CHOOSE j \in DOMAIN server.addresses :
                 server.addresses[j].net = _metadata_network_name(server)
    IN  server.addresses[i].addrs

_network_address(server) ==
    IF _has_named_network(server)
    THEN FirstOfVersion(server, NamedNetwork(server))
    ELSE FirstOverNetworks(server, server.addresses)

\* has_address that is true of every instance
HasAddressAlways(server) == TRUE

has_address(server) == _network_address(server) # NoneStr

\* openstack.Endpoint(server) as the properties the rest of the program reads
OsEndpoint(server) ==
    [hostname |-> server.name, nodename |-> server.compute_host,
     address |-> _network_address(server)]

\* Endpoints._endpoint_list over the listing; ok = FALSE when a filter raised
RECURSIVE EndpointListFrom(_, _, _)
EndpointListFrom(flts, listing, acc) ==
    IF listing = <<>> THEN [ok |-> TRUE, val |-> acc]
    ELSE LET r == _is_endpoint_server(flts, listing[1])
         IN  IF r = "raise" THEN [ok |-> FALSE, val |-> <<>>]
             ELSE IF r = "true" /\ has_address(listing[1])
                  THEN EndpointListFrom(flts, Tail(listing),
                                        Append(acc, OsEndpoint(listing[1])))
                  ELSE EndpointListFrom(flts, Tail(listing), acc)

\* a list that keeps every instance passing the filters, resolved or not
EndpointListUnresolvedKept(flts, listing) ==
    LET kept == SelectSeq(listing, LAMBDA s : _is_endpoint_server(flts, s) = "true")
    IN  [ok |-> TRUE, val |-> [i \in DOMAIN kept |-> OsEndpoint(kept[i])]]

_endpoint_list(flts, listing) == EndpointListFrom(flts, listing, <<>>)

\* ABCEndpoints.addresses: the endpoints as V1EndpointAddress values
ExternalAddresses(eps) ==
    [i \in DOMAIN eps |->
        [hostname |-> eps[i].hostname, node_name |-> eps[i].nodename,
         ip |-> eps[i].address]]

\* __bool__ that tests the object, not its address list
ExternalBoolOfObject(eps) == TRUE

\* ABCEndpoints.__bool__
ExternalBool(eps) == ExternalAddresses(eps) # <<>>

---------------------------------------------------------------------------
(* kubernetes.Endpoint: the cluster store.  A resource is a V1Endpoints:   *)
(* its subsets, each with addresses and ports; ports "none" is a subset    *)
(* whose ports field is None.                                              *)

Absent == [exists |-> FALSE, subsets |-> <<>>]

Resource(subsets) == [exists |-> TRUE, subsets |-> subsets]

\* Endpoint._read_endpoint: any ApiException gives None
_read_endpoint(server, apiError) ==
    IF apiError \/ ~server.exists THEN Absent ELSE server

\* Endpoint.__bool__
KubeBool(ep) == ep.exists

\* Endpoint.addresses (getter); ok = FALSE when subsets[0] raises
KubeAddresses(ep) ==
    IF ~ep.exists THEN [ok |-> TRUE, val |-> <<>>]
    ELSE IF ep.subsets = <<>> THEN [ok |-> FALSE, val |-> <<>>]
    ELSE [ok |-> TRUE, val |-> ep.subsets[1].addresses]

\* Endpoint.ports; ok = FALSE when subsets[0] or list(None) raises
KubePorts(ep) ==
    IF ep.subsets = <<>> THEN [ok |-> FALSE, val |-> "none"]
    ELSE IF ep.subsets[1].ports = "none" THEN [ok |-> FALSE, val |-> "none"]
    ELSE [ok |-> TRUE, val |-> ep.subsets[1].ports]

Min(a, b) == IF a < b THEN a ELSE b

\* a diff taken from the candidate to the current list
DeepDiffReversed(cur, cand) ==
    [added   |-> {i \in DOMAIN cur : i > Len(cand)},
     removed |-> {i \in DOMAIN cand : i > Len(cur)},
     changed |-> {i \in 1..Min(Len(cur), Len(cand)) : cur[i] # cand[i]}]

\* DeepDiff(current, candidate).to_dict(), index by index
DeepDiff(cur, cand) ==
    [added   |-> {i \in DOMAIN cand : i > Len(cur)},
     removed |-> {i \in DOMAIN cur : i > Len(cand)},
     changed |-> {i \in 1..Min(Len(cur), Len(cand)) : cur[i] # cand[i]}]

NoDiff == [added |-> {}, removed |-> {}, changed |-> {}]

\* Endpoint.diff: None (here NoDiff, as falsy) on an absent store
KubeDiff(ep, addresses) ==
    IF ~ep.exists THEN [ok |-> TRUE, val |-> NoDiff]
    ELSE IF ~KubeAddresses(ep).ok THEN [ok |-> FALSE, val |-> NoDiff]
    ELSE [ok |-> TRUE, val |-> DeepDiff(KubeAddresses(ep).val, addresses)]

\* a setter that patches whenever the resource exists
SetterGuardWithoutDiff(ep, d) == ep.exists

\* the setter's guard: self._endpoint and self.diff(value)
SetterGuard(ep, d) == ep.exists /\ d # NoDiff

\* a body that lists the addresses in reverse
PatchBodyReversed(addresses, ports) ==
    [subsets |-> <<[addresses |-> [i \in DOMAIN addresses |->
                                      addresses[Len(addresses) + 1 - i]],
                    ports |-> ports]>>]

\* the body _patch_addresses builds
PatchBody(addresses, ports) ==
    [subsets |-> <<[addresses |-> addresses, ports |-> ports]>>]

\* the API server applying an accepted patch: subsets is replaced as a whole
ApiPatch(server, body) == Resource(body.subsets)

\* a setter that keeps the snapshot it had before the patch
RefreshAfterPatchSkipped(ep, server, readError) == ep

\* the setter's self.refresh() after the patch call returned
RefreshAfterPatch(ep, server, readError) == _read_endpoint(server, readError)

NoPatch == [issued |-> FALSE, body |-> [subsets |-> <<>>], result |-> "none"]

\* Endpoint.addresses (setter) on store ep against the server: what it
\* raises, the patch call it issues, the server and the store afterwards
SetAddresses(ep, server, value, rejected, readError) ==
    LET d     == KubeDiff(ep, value)
        ports == KubePorts(ep)
        body  == PatchBody(value, ports.val)
        same  == [raised |-> "none", patch |-> NoPatch, srv |-> server,
                  ep |-> ep, reread |-> FALSE]
    IN  IF ~ep.exists THEN same
        ELSE IF ~d.ok THEN [same EXCEPT !.raised = "subsets"]
        ELSE IF ~SetterGuard(ep, d.val) THEN same
        ELSE IF ~ports.ok THEN [same EXCEPT !.raised = "ports"]
        ELSE IF ~server.exists
             THEN [same EXCEPT !.raised = "patch",
                     !.patch = [issued |-> TRUE, body |-> body,
                                result |-> "not_found"]]
        ELSE IF rejected
             THEN [same EXCEPT !.raised = "patch",
                     !.patch = [issued |-> TRUE, body |-> body,
                                result |-> "rejected"]]
        ELSE [raised |-> "none",
              patch  |-> [issued |-> TRUE, body |-> body, result |-> "accepted"],
              srv    |-> ApiPatch(server, body),
              ep     |-> RefreshAfterPatch(ep, ApiPatch(server, body), readError),
              reread |-> TRUE]

\* a setter that sends a rejected patch a second time
SetterCallsWithRetry(r) ==
    IF ~r.patch.issued THEN <<>>
    ELSE IF r.reread THEN <<"patch", "cluster_read">>
    ELSE <<"patch", "patch">>

\* the backend calls the setter made, in order: _patch_addresses once, then
\* refresh() when the patch call returned
SetterCalls(r) ==
    IF ~r.patch.issued THEN <<>>
    ELSE IF r.reread THEN <<"patch", "cluster_read">>
    ELSE <<"patch">>

\* no call of diff() yet
NoDiffCall == [called |-> FALSE, raised |-> FALSE, none |-> FALSE,
               current |-> <<>>, candidate |-> <<>>, result |-> NoDiff]

Count(q, x) == Cardinality({i \in DOMAIN q : q[i] = x})

Range(q) == {q[i] : i \in DOMAIN q}

\* the two lists hold the same values the same number of times
SameBag(a, b) == \A x \in Range(a) \cup Range(b) : Count(a, x) = Count(b, x)

\* a comparison that ignores the order of the lists
AddressesDifferUnordered(kube, external) == ~SameBag(kube, external)

\* sync_loop line 158: kube_endpoint.addresses != external_endpoints.addresses
AddressesDiffer(kube, external) == kube # external

---------------------------------------------------------------------------
(* The values of the model.                                                *)

Web1 == [name |-> "web-1", compute_host |-> "node-1",
         metadata |-> << <<"service.name", "web">>, <<"service.namespace", "prod">> >>,
         addresses |-> << [net |-> "public",
                           addrs |-> << [version |-> "4", addr |-> "10.0.0.1"] >>] >>]

Web2 == [name |-> "web-2", compute_host |-> "node-2",
         metadata |-> << <<"service.name", "web">>, <<"service.namespace", "prod">> >>,
         addresses |-> << [net |-> "public",
                           addrs |-> << [version |-> "4", addr |-> "10.0.0.2"] >>] >>]

\* passes the filters, has no address of version 4
Web3 == [name |-> "web-3", compute_host |-> "node-3",
         metadata |-> << <<"service.name", "web">>, <<"service.namespace", "prod">> >>,
         addresses |-> << [net |-> "private",
                           addrs |-> << [version |-> "6", addr |-> "fd00::3"] >>] >>]

\* no metadata at all
Bare == [name |-> "db-1", compute_host |-> "node-4",
         metadata |-> <<>>,
         addresses |-> << [net |-> "public",
                           addrs |-> << [version |-> "4", addr |-> "10.0.0.4"] >>] >>]

Catalogue == {Web1, Web2, Web3, Bare}

InjSeqs(S, n) ==
    UNION {{f \in [1..k -> S] : \A i, j \in 1..k : i # j => f[i] # f[j]} : k \in 0..n}

\* what the compute API may list
Inventories == InjSeqs(Catalogue, MaxServers)

Addr == {[hostname |-> s.name, node_name |-> s.compute_host, ip |-> _network_address(s)]
            : s \in {Web1, Web2}}

\* the address lists another actor may write into the resource
AddrSeqs == InjSeqs(Addr, Cardinality(Addr))

PortLists == {"none", "p80", "p443"}

Subsets == [addresses : AddrSeqs, ports : PortLists]

\* what the resource may be on the API server
Resources == {Absent, Resource(<<>>)} \cup {Resource(<<s>>) : s \in Subsets}

\* main(): filters = {'metadata': {'.*service.name$': '^<endpoint>$',
\*                                 '.*service.namespace$': '^<namespace>$'}}
MainFilters(endpointPattern, namespacePattern) ==
    << [cat |-> "metadata", name |-> NoneStr,
        metadata |-> << <<".*service.name$", endpointPattern>>,
                        <<".*service.namespace$", namespacePattern>> >>] >>

\* a well-formed configuration, and one whose endpoint name gives a pattern
\* re does not compile
FilterConfigs == {MainFilters("^web$", "^prod$"), MainFilters("^($", "^prod$")}

\* which calls the environment may fail
Fail == IF faults THEN {TRUE, FALSE} ELSE {FALSE}

---------------------------------------------------------------------------
(* Startup: main().                                                        *)

\* the log line that tells what the tick decided, with the cluster list of
\* line 158
Verdict(v, kube) == [verdict |-> v, kube |-> kube]

NoReport == Verdict("none", <<>>)

\* an exception leaves the call; no caller up to main() catches it, so the
\* process ends
Raise(cause) == /\ pc' = "crashed"
                /\ raised' = cause

\* kubernetes.Endpoint(...): the constructor reads the resource
MainKube ==
    /\ pc = "main_kube"
    /\ \E apiError \in Fail : snapshot' = _read_endpoint(srv, apiError)
    /\ pc' = "main_external"
    /\ instances' = Constructed(instances, built, "kubernetes._APIClient", ConfigArgs).instances
    /\ built' = Constructed(instances, built, "kubernetes._APIClient", ConfigArgs).built
    /\ UNCHANGED <<filters, srv, servers, endpoints, raised, started, report,
                   tickPatch, calls, faults, tickLog, diffed>>

\* external.factory(...): the constructor lists and filters the instances
MainExternal ==
    /\ pc = "main_external"
    /\ \E listError \in Fail :
          LET r == _endpoint_list(filters, servers)
          IN  IF listError
              THEN Raise("listing") /\ UNCHANGED <<endpoints, started>>
              ELSE IF ~r.ok
              THEN Raise("regex") /\ UNCHANGED <<endpoints, started>>
              ELSE /\ endpoints' = r.val
                   /\ pc' = "sleep"
                   /\ started' = TRUE
                   /\ UNCHANGED raised
    /\ instances' = Constructed(instances, built, "openstack._APIClient", ConfigArgs).instances
    /\ built' = Constructed(instances, built, "openstack._APIClient", ConfigArgs).built
    /\ UNCHANGED <<filters, srv, servers, snapshot, report, tickPatch, calls, faults,
                   tickLog, diffed>>

---------------------------------------------------------------------------
(* One tick of sync_loop, a step per call to a backend.                    *)

\* lines 138-143: sleep, kube_endpoint.refresh(), log kube_endpoint.addresses
TickKubeRefresh ==
    /\ pc = "sleep"
    /\ \E apiError \in Fail :
          LET ep == _read_endpoint(srv, apiError)
          IN  /\ snapshot' = ep
              /\ IF KubeAddresses(ep).ok
                 THEN pc' = "kube_fetched" /\ UNCHANGED raised
                 ELSE Raise("subsets")
    /\ report' = NoReport
    /\ tickPatch' = NoPatch
    /\ tickLog' = <<"cluster_refresh">>
    /\ UNCHANGED <<filters, srv, servers, endpoints, started, calls, faults, diffed, instances, built>>

\* lines 145-148: external_endpoints.refresh(), log its addresses
TickExternalRefresh ==
    /\ pc = "kube_fetched"
    /\ \E listError \in Fail :
          LET r == _endpoint_list(filters, servers)
          IN  IF listError
              THEN Raise("listing") /\ UNCHANGED endpoints
              ELSE IF ~r.ok
              THEN Raise("regex") /\ UNCHANGED endpoints
              ELSE /\ endpoints' = r.val
                   /\ pc' = "external_fetched"
                   /\ UNCHANGED raised
    /\ tickLog' = Append(tickLog, "external_refresh")
    /\ UNCHANGED <<filters, srv, servers, snapshot, started, report, tickPatch,
                   calls, faults, diffed, instances, built>>

\* lines 150-164: the guards, the comparison and the apply
TickReconcile ==
    /\ pc = "external_fetched"
    /\ IF ~KubeBool(snapshot)
       THEN /\ report' = Verdict("skip_kube", <<>>)
            /\ pc' = "sleep"
            /\ tickLog' = tickLog \o <<"guards">>
            /\ UNCHANGED <<srv, snapshot, tickPatch, raised>>
       ELSE IF ~ExternalBool(endpoints)
       THEN /\ report' = Verdict("skip_external", <<>>)
            /\ pc' = "sleep"
            /\ tickLog' = tickLog \o <<"guards">>
            /\ UNCHANGED <<srv, snapshot, tickPatch, raised>>
       ELSE IF AddressesDiffer(KubeAddresses(snapshot).val, ExternalAddresses(endpoints))
       THEN \E rejected \in Fail, readError \in Fail :
               LET r == SetAddresses(snapshot, srv, ExternalAddresses(endpoints),
                                     rejected, readError)
               IN  /\ srv' = r.srv
                   /\ snapshot' = r.ep
                   /\ tickPatch' = r.patch
                   /\ tickLog' = tickLog \o <<"guards", "compare">> \o SetterCalls(r)
                   /\ IF r.raised # "none"
                      THEN /\ Raise(r.raised)
                           /\ report' = Verdict("differ", KubeAddresses(snapshot).val)
                      ELSE /\ report' = Verdict("updated", KubeAddresses(snapshot).val)
                           /\ pc' = "sleep"
                           /\ UNCHANGED raised
       ELSE /\ report' = Verdict("in_sync", KubeAddresses(snapshot).val)
            /\ pc' = "sleep"
            /\ tickLog' = tickLog \o <<"guards", "compare">>
            /\ UNCHANGED <<srv, snapshot, tickPatch, raised>>
    /\ UNCHANGED <<filters, servers, endpoints, started, calls, faults, diffed, instances, built>>

---------------------------------------------------------------------------
(* The environment.                                                        *)

\* another actor deletes the resource, creates it, or edits the addresses
\* or the ports of its subset (any resource is some such changes away)
ClusterChange ==
    /\ faults
    /\ pc # "crashed"
    /\ \E r \in Resources \ {srv} :
          /\ srv' = r
          /\ \/ ~r.exists
             \/ ~srv.exists
             \/ r.subsets = <<>>
             \/ srv.subsets = <<>>
             \/ /\ r.subsets # <<>>
                /\ srv.subsets # <<>>
                /\ \/ r.subsets[1].ports = srv.subsets[1].ports
                   \/ r.subsets[1].addresses = srv.subsets[1].addresses
    /\ UNCHANGED <<filters, servers, snapshot, endpoints, pc, raised, started,
                   report, tickPatch, calls, faults, tickLog, diffed, instances, built>>

RemoveAt(q, i) == SubSeq(q, 1, i - 1) \o SubSeq(q, i + 1, Len(q))

InsertAt(q, i, x) == SubSeq(q, 1, i - 1) \o <<x>> \o SubSeq(q, i, Len(q))

\* an instance appears in the listing or disappears from it (any listing,
\* in any order, is some such changes away)
ProviderChange ==
    /\ faults
    /\ pc # "crashed"
    /\ \/ \E i \in DOMAIN servers : servers' = RemoveAt(servers, i)
       \/ \E i \in 1..(Len(servers) + 1), s \in Catalogue :
             /\ InsertAt(servers, i, s) \in Inventories
             /\ servers' = InsertAt(servers, i, s)
    /\ UNCHANGED <<filters, srv, snapshot, endpoints, pc, raised, started,
                   report, tickPatch, calls, faults, tickLog, diffed, instances, built>>

---------------------------------------------------------------------------
(* The program under an environment that changes and fails.                *)

Init ==
    /\ filters \in FilterConfigs
    /\ srv \in Resources
    /\ servers \in Inventories
    /\ snapshot = Absent
    /\ endpoints = <<>>
    /\ pc = "main_kube"
    /\ raised = "none"
    /\ started = FALSE
    /\ report = NoReport
    /\ tickPatch = NoPatch
    /\ calls = <<>>
    /\ faults = TRUE
    /\ tickLog = <<>>
    /\ diffed = NoDiffCall
    /\ instances = NoInstances
    /\ built = <<>>

Next ==
    \/ MainKube
    \/ MainExternal
    \/ TickKubeRefresh
    \/ TickExternalRefresh
    \/ TickReconcile
    \/ ClusterChange
    \/ ProviderChange

Spec == Init /\ [][Next]_vars

---------------------------------------------------------------------------
(* The store used directly: a caller that constructs kubernetes.Endpoint   *)
(* and calls refresh() and the addresses setter in any order, with no      *)
(* exception handler, while other actors change the resource.              *)

Last(q) == q[Len(q)]

\* the call is remembered with the one before it
Remember(q, c) == IF q = <<>> THEN <<c>> ELSE <<Last(q), c>>

\* kube_endpoint.refresh()
DirectRefresh ==
    /\ pc = "direct"
    /\ \E apiError \in Fail : snapshot' = _read_endpoint(srv, apiError)
    /\ tickPatch' = NoPatch
    /\ calls' = <<>>
    /\ UNCHANGED <<filters, srv, servers, endpoints, pc, raised, started, report, faults,
                   tickLog, diffed, instances, built>>

\* kube_endpoint.addresses = value
DirectSetAddresses(value) ==
    /\ pc = "direct"
    /\ \E rejected \in Fail, readError \in Fail :
          LET r == SetAddresses(snapshot, srv, value, rejected, readError)
          IN  /\ srv' = r.srv
              /\ snapshot' = r.ep
              /\ tickPatch' = r.patch
              /\ calls' = Remember(calls, [value |-> value, issued |-> r.patch.issued,
                                           result |-> r.patch.result,
                                           reread |-> r.reread])
              /\ IF r.raised # "none" THEN Raise(r.raised) ELSE UNCHANGED <<pc, raised>>
    /\ UNCHANGED <<filters, servers, endpoints, started, report, faults, tickLog, diffed, instances, built>>

DirectSet == \E value \in AddrSeqs : DirectSetAddresses(value)

ApplyInit ==
    /\ filters = MainFilters("^web$", "^prod$")
    /\ srv \in Resources
    /\ servers = <<>>
    /\ snapshot \in {_read_endpoint(srv, apiError) : apiError \in BOOLEAN}
    /\ endpoints = <<>>
    /\ pc = "direct"
    /\ raised = "none"
    /\ started = FALSE
    /\ report = NoReport
    /\ tickPatch = NoPatch
    /\ calls = <<>>
    /\ faults = TRUE
    /\ tickLog = <<>>
    /\ diffed = NoDiffCall
    /\ instances = Constructed(NoInstances, <<>>, "kubernetes._APIClient", ConfigArgs).instances
    /\ built = Constructed(NoInstances, <<>>, "kubernetes._APIClient", ConfigArgs).built

ApplyNext ==
    \/ DirectRefresh
    \/ DirectSet
    \/ ClusterChange

ApplySpec == ApplyInit /\ [][ApplyNext]_vars

\* kube_endpoint.diff(candidate)
DirectDiff(candidate) ==
    /\ pc = "direct"
    /\ LET d == KubeDiff(snapshot, candidate)
       IN  IF ~d.ok
           THEN /\ Raise("subsets")
                /\ diffed' = [called |-> TRUE, raised |-> TRUE, none |-> FALSE,
                              current |-> <<>>, candidate |-> candidate,
                              result |-> NoDiff]
           ELSE /\ diffed' = [called |-> TRUE, raised |-> FALSE,
                              none |-> ~KubeBool(snapshot),
                              current |-> KubeAddresses(snapshot).val,
                              candidate |-> candidate, result |-> d.val]
                /\ UNCHANGED <<pc, raised>>
    /\ UNCHANGED <<filters, srv, servers, snapshot, endpoints, started, report,
                   tickPatch, calls, faults, tickLog, instances, built>>

DirectDiffs == \E candidate \in AddrSeqs : DirectDiff(candidate)

DiffNext ==
    \/ DirectRefresh
    \/ DirectDiffs
    \/ ClusterChange

\* a caller that refreshes the store and asks it for diffs
DiffSpec == ApplyInit /\ [][DiffNext]_vars

---------------------------------------------------------------------------
(* The program under a quiet environment: nothing changes but by the       *)
(* program's own patch and every call succeeds.  The loop sleeps and runs  *)
(* again for as long as the process lives.                                 *)

LiveInit ==
    /\ filters \in FilterConfigs
    /\ srv \in Resources
    /\ servers \in Inventories
    /\ snapshot = Absent
    /\ endpoints = <<>>
    /\ pc = "main_kube"
    /\ raised = "none"
    /\ started = FALSE
    /\ report = NoReport
    /\ tickPatch = NoPatch
    /\ calls = <<>>
    /\ faults = FALSE
    /\ tickLog = <<>>
    /\ diffed = NoDiffCall
    /\ instances = NoInstances
    /\ built = <<>>

LiveNext ==
    \/ MainKube
    \/ MainExternal
    \/ TickKubeRefresh
    \/ TickExternalRefresh
    \/ TickReconcile

LiveSpec == LiveInit /\ [][LiveNext]_vars /\ WF_vars(LiveNext)

---------------------------------------------------------------------------
(* The external inventory used alone: openstack.Endpoints constructed     *)
(* with a rule set and refreshed against what the provider lists.  The    *)
(* instances combine a name, a metadata mapping (in iteration order) and  *)
(* a layout of networks, each with its address entries in provider order. *)

\* longest instance list the provider returns to the inventory used alone
MaxListed == 1

ServiceTags(namespace) ==
    << <<"service.name", "web">>, <<"service.namespace", namespace>> >>

MetadataChoices ==
    { <<>>,
      ServiceTags("prod"),
      ServiceTags("dev"),
      ServiceTags("prod") \o << <<"endpoint.network.name", "private">> >>,
      ServiceTags("prod") \o << <<"endpoint.network.version", "6">> >>,
      ServiceTags("prod") \o << <<"endpoint.network.name", "private">>,
                                <<"endpoint.network.version", "6">> >>,
      << <<"endpoint.network.name", "private">> >>,
      << <<"k8s.service.name", "db">> >> \o ServiceTags("prod"),
      ServiceTags("prod") \o << <<"k8s.service.name", "db">> >>,
      << <<"service.namespace", "prod">>, <<"service.name", "web">> >>,
      ServiceTags("prod") \o << <<"endpoint.network.version", "6">>,
                                <<"alt.endpoint.network.version", "4">> >>,
      ServiceTags("prod") \o << <<"alt.endpoint.network.version", "4">>,
                                <<"endpoint.network.version", "6">> >> }

Entry(version, addr) == [version |-> version, addr |-> addr]

NetworkLayouts ==
    { <<>>,
      << [net |-> "public", addrs |-> << Entry("4", "10.0.0.1") >>] >>,
      << [net |-> "public", addrs |-> << Entry("4", "10.0.0.1") >>],
         [net |-> "private", addrs |-> << Entry("6", "fd00::1") >>] >>,
      << [net |-> "private", addrs |-> << Entry("6", "fd00::1"), Entry("4", "10.1.0.1"),
                                          Entry("4", "10.1.0.2") >>],
         [net |-> "public", addrs |-> << Entry("4", "10.0.0.1") >>] >> }

Instances ==
    [name : {"web-1", "db-1"}, compute_host : {"node-1"},
     metadata : MetadataChoices, addresses : NetworkLayouts]

NameRule(pattern) == [cat |-> "name", name |-> pattern, metadata |-> <<>>]

MetadataRule(pairs) == [cat |-> "metadata", name |-> NoneStr, metadata |-> pairs]

\* a category Endpoints has no _filter_server_<name> method for
OtherRule == [cat |-> "flavor", name |-> "^m1$", metadata |-> <<>>]

\* the filters dict, as its items in iteration order
RuleSets ==
    { <<>>,
      MainFilters("^web$", "^prod$"),
      << MetadataRule(<<>>) >>,
      << MetadataRule(<< <<".*service.name$", "^web$">> >>) >>,
      << NameRule("^web-.*") >>,
      << NameRule("^web-.*") >> \o MainFilters("^web$", "^prod$"),
      MainFilters("^web$", "^prod$") \o << NameRule("^web-.*") >>,
      << OtherRule, NameRule("^web-.*") >> }

\* the provider lists one more instance
ProviderLists ==
    /\ pc \in {"inventory", "listed"}
    /\ Len(servers) < MaxListed
    /\ \E s \in Instances : servers' = Append(servers, s)
    /\ pc' = "inventory"
    /\ UNCHANGED <<filters, srv, snapshot, endpoints, raised, started, report,
                   tickPatch, calls, faults, tickLog, diffed, instances, built>>

\* external_endpoints.refresh()
InventoryRefresh ==
    /\ pc \in {"inventory", "listed"}
    /\ LET r == _endpoint_list(filters, servers)
       IN  IF ~r.ok
           THEN Raise("regex") /\ UNCHANGED endpoints
           ELSE /\ endpoints' = r.val
                /\ pc' = "listed"
                /\ UNCHANGED raised
    /\ UNCHANGED <<filters, srv, servers, snapshot, started, report, tickPatch,
                   calls, faults, tickLog, diffed, instances, built>>

InventoryInit ==
    /\ filters \in RuleSets
    /\ srv = Absent
    /\ servers = <<>>
    /\ snapshot = Absent
    /\ endpoints = <<>>
    /\ pc = "inventory"
    /\ raised = "none"
    /\ started = FALSE
    /\ report = NoReport
    /\ tickPatch = NoPatch
    /\ calls = <<>>
    /\ faults = FALSE
    /\ tickLog = <<>>
    /\ diffed = NoDiffCall
    /\ instances = Constructed(NoInstances, <<>>, "openstack._APIClient", ConfigArgs).instances
    /\ built = Constructed(NoInstances, <<>>, "openstack._APIClient", ConfigArgs).built

InventoryNext ==
    \/ ProviderLists
    \/ InventoryRefresh

InventorySpec == InventoryInit /\ [][InventoryNext]_vars

---------------------------------------------------------------------------
(* The API client wrappers used alone: a caller that constructs them any   *)
(* number of times with any arguments.  A constructor that raises (the     *)
(* token file cannot be read, the connection cannot be set up) leaves the  *)
(* registry as it was and ends the caller.                                 *)

\* most constructions the caller makes
MaxConstructions == 3

ClientArgs == {ConfigArgs, "second", "third"}

\* cls(*args)
ConstructClient(cls, args) ==
    /\ pc = "constructing"
    /\ Len(built) < MaxConstructions
    /\ \E initRaises \in BOOLEAN :
          IF ~instances[cls].made /\ initRaises
          THEN Raise("constructor") /\ UNCHANGED <<instances, built>>
          ELSE /\ instances' = Constructed(instances, built, cls, args).instances
               /\ built' = Constructed(instances, built, cls, args).built
               /\ UNCHANGED <<pc, raised>>
    /\ UNCHANGED <<filters, srv, servers, snapshot, endpoints, started, report,
                   tickPatch, calls, faults, tickLog, diffed>>

Construct == \E cls \in ClientClasses, args \in ClientArgs : ConstructClient(cls, args)

SingletonInit ==
    /\ filters = <<>>
    /\ srv = Absent
    /\ servers = <<>>
    /\ snapshot = Absent
    /\ endpoints = <<>>
    /\ pc = "constructing"
    /\ raised = "none"
    /\ started = FALSE
    /\ report = NoReport
    /\ tickPatch = NoPatch
    /\ calls = <<>>
    /\ faults = TRUE
    /\ tickLog = <<>>
    /\ diffed = NoDiffCall
    /\ instances = NoInstances
    /\ built = <<>>

SingletonNext == Construct

SingletonSpec == SingletonInit /\ [][SingletonNext]_vars

---------------------------------------------------------------------------
(* Properties.                                                             *)

PortsOf(r) == IF r.subsets = <<>> THEN "none" ELSE r.subsets[1].ports

\* C1: a tick whose external address list is empty after its refresh sends
\* no patch and leaves the resource as it was, whatever the resource holds.
C1_EmptyExternalNeverPatches ==
    [][(TickReconcile /\ ExternalAddresses(endpoints) = <<>>)
          => (tickPatch' = NoPatch /\ srv' = srv)]_vars

\* a tick skipped for an empty external list while the resource holds two
\* addresses
C1_Witness ==
    /\ report.verdict = "skip_external"
    /\ pc = "sleep"
    /\ snapshot = srv
    /\ srv.subsets # <<>>
    /\ Len(srv.subsets[1].addresses) = 2

\* C2: in a tick whose cluster refresh found the resource absent, the steps
\* that follow issue no patch, create nothing and do not fail.
C2_AbsentTickCompletes ==
    [][((TickExternalRefresh \/ TickReconcile) /\ ~snapshot.exists)
          => (pc' # "crashed" /\ tickPatch' = NoPatch /\ srv' = srv)]_vars

C4_ListingFailureAbortsTickOnly ==
    (started /\ raised = "listing") => (pc # "crashed" /\ tickPatch = NoPatch)

\* C5: a patch call that fails (rejected, or the resource gone since the
\* refresh) does not end the process.
C5_PatchFailureAbortsTickOnly ==
    raised = "patch" => pc # "crashed"

C6_Expected == ExternalAddresses(_endpoint_list(filters, servers).val)

C6_Precondition ==
    /\ srv.exists
    /\ _endpoint_list(filters, servers).ok
    /\ C6_Expected # <<>>

C6_InSync ==
    /\ srv.exists
    /\ KubeAddresses(srv).ok
    /\ KubeAddresses(srv).val = C6_Expected
    /\ tickPatch = NoPatch
    /\ report.verdict \in {"none", "in_sync"}

\* C6: with the resource present, the external list non-empty, nothing
\* changing and every call succeeding, the resource's addresses come to
\* equal the external list, and from then on ticks report in sync and patch
\* nothing.
C6_Converges == C6_Precondition ~> []C6_InSync

\* C7, second part: the same list applied twice in a row issues at most one
\* patch call.
C7_AtMostOnePatch ==
    (Len(calls) = 2 /\ calls[1].value = calls[2].value)
        => ~(calls[1].issued /\ calls[2].issued)

\* C7, first part: the setter called with the list the store already holds
\* issues no patch, does not re-read and leaves snapshot and resource alone.
C7_NoWriteWhenEqual ==
    [][(DirectSet /\ KubeAddresses(snapshot).ok
                  /\ KubeAddresses(snapshot).val = Last(calls').value)
          => /\ ~Last(calls').issued
             /\ ~Last(calls').reread
             /\ tickPatch' = NoPatch
             /\ snapshot' = snapshot
             /\ srv' = srv]_vars

\* C7: apply is idempotent.
C7_ApplyIdempotent == []C7_AtMostOnePatch /\ C7_NoWriteWhenEqual

\* the list applied twice in a row: the first call patched, the second did
\* nothing
C7_Witness ==
    /\ Len(calls) = 2
    /\ calls[1].value = calls[2].value
    /\ calls[1].result = "accepted"
    /\ ~calls[2].issued
    /\ ~calls[2].reread
    /\ pc = "direct"

C9_PortsNeverAltered ==
    [][(TickReconcile /\ tickPatch'.result = "accepted" /\ srv.subsets # <<>>)
          => /\ Len(tickPatch'.body.subsets) = 1
             /\ tickPatch'.body.subsets[1].ports = PortsOf(srv)
             /\ PortsOf(srv') = PortsOf(srv)]_vars

\* C10: once the loop has begun, no tick fails on a filter pattern that does
\* not compile.
C10_MalformedPatternFatalAtStartup ==
    ~(started /\ raised = "regex")

\* C11: a read that finds the resource missing leaves the store absent
\* without raising (exists false, addresses empty), the tick is skipped and
\* the loop sleeps again, and once the resource is there a tick's refresh
\* sees it and the tick goes on to reconcile it.
C11_AbsentIsRecoverable ==
    [][/\ ((MainKube \/ TickKubeRefresh) /\ ~srv.exists)
            => /\ snapshot' = Absent
               /\ pc' # "crashed"
               /\ ~KubeBool(snapshot')
               /\ KubeAddresses(snapshot') = [ok |-> TRUE, val |-> <<>>]
       /\ (TickReconcile /\ ~snapshot.exists) => pc' = "sleep"
       /\ (TickKubeRefresh /\ ~snapshot.exists /\ snapshot'.exists)
            => (snapshot' = srv /\ pc' = "kube_fetched")]_vars

C12_Matching(flts, listing) ==
    {i \in DOMAIN listing : _is_endpoint_server(flts, listing[i]) = "true"}

C12_Unresolved(flts, listing) ==
    {i \in C12_Matching(flts, listing) : _network_address(listing[i]) = NoneStr}

\* C12: no address in a patch has a null ip, and a refresh leaves out every
\* instance that passes the filters without a resolvable address: the list
\* is shorter by one for each, and no entry has a null address.
C12_NoNullIp ==
    /\ [](tickPatch.issued
            => \A i \in DOMAIN tickPatch.body.subsets[1].addresses :
                  tickPatch.body.subsets[1].addresses[i].ip # NoneStr)
    /\ [][(TickExternalRefresh /\ pc' = "external_fetched")
            => /\ \A i \in DOMAIN endpoints' : endpoints'[i].address # NoneStr
               /\ \A i \in DOMAIN endpoints' :
                     ExternalAddresses(endpoints')[i].ip # NoneStr
               /\ Len(endpoints') = Cardinality(C12_Matching(filters, servers))
                                     - Cardinality(C12_Unresolved(filters, servers))]_vars

\* a patch accepted while the provider lists web-3, which passes the filters
\* and has no address of version 4, next to web-1: one address is written
C12_Witness ==
    /\ tickPatch.result = "accepted"
    /\ servers = <<Web3, Web1>>
    /\ endpoints = <<OsEndpoint(Web1)>>
    /\ Len(tickPatch.body.subsets[1].addresses) = 1
    /\ tickPatch.body.subsets[1].addresses[1].ip = "10.0.0.1"

\* C17: a tick lists the provider at most once and calls patch at most
\* once, and startup issues no patch; between ticks the process sleeps.
C17_NoRetries ==
    /\ [](Count(tickLog, "external_refresh") <= 1 /\ Count(tickLog, "patch") <= 1)
    /\ [][(MainKube \/ MainExternal) => (tickPatch' = NoPatch /\ srv' = srv)]_vars
    /\ [][tickPatch'.issued => (tickPatch' = tickPatch \/ TickReconcile)]_vars

\* a tick whose patch call was rejected: it was sent once
C17_Witness ==
    /\ tickPatch.result = "rejected"
    /\ Count(tickLog, "patch") = 1
    /\ Count(tickLog, "external_refresh") = 1

TickOrder == <<"cluster_refresh", "external_refresh", "guards", "compare",
               "patch", "cluster_read">>

IsPrefix(a, b) == Len(a) <= Len(b) /\ a = SubSeq(b, 1, Len(a))

\* C19 as stated: the steps of a tick come in the order cluster refresh,
\* external refresh, guards, comparison; every patch call comes after them
\* and is followed at once by a cluster re-read, and it sends the list of
\* this tick's external refresh in its order.
C19_PatchThenReread ==
    /\ IsPrefix(tickLog, TickOrder)
    /\ tickPatch.issued
          => /\ tickLog = TickOrder
             /\ tickPatch.body.subsets[1].addresses = ExternalAddresses(endpoints)

\* C19 as amended: the steps come in that order, every patch call comes
\* after both refreshes, the guards and the comparison and sends the list
\* of this tick's external refresh in its order; a patch call that returns
\* is followed at once by a cluster re-read, one that raises by nothing.
C19_TickOrder ==
    /\ IsPrefix(tickLog, TickOrder)
    /\ tickPatch.issued
          => /\ IsPrefix(SubSeq(TickOrder, 1, 5), tickLog)
             /\ tickPatch.body.subsets[1].addresses = ExternalAddresses(endpoints)
             /\ tickPatch.result = "accepted" <=> tickLog = TickOrder
             /\ tickPatch.result # "accepted" <=> tickLog = SubSeq(TickOrder, 1, 5)

\* a tick that wrote two addresses and read the resource again
C19_Witness ==
    /\ tickLog = TickOrder
    /\ tickPatch.result = "accepted"
    /\ Len(endpoints) = 2
    /\ tickPatch.body.subsets[1].addresses = ExternalAddresses(endpoints)
    /\ pc = "sleep"

\* C20: in a tick where the resource exists, the external list is not empty
\* and the comparison of line 158 finds the lists unequal, a patch call is
\* issued.
C20_UnequalAlwaysPatches ==
    [][(/\ TickReconcile
        /\ snapshot.exists
        /\ ExternalAddresses(endpoints) # <<>>
        /\ AddressesDiffer(KubeAddresses(snapshot).val, ExternalAddresses(endpoints)))
          => tickPatch'.issued]_vars

\* the addresses the instance has on the network of that name
AddrsOn(server, net) ==
    UNION {{server.addresses[i].addrs[k].addr : k \in DOMAIN server.addresses[i].addrs}
              : i \in {j \in DOMAIN server.addresses : server.addresses[j].net = net}}

\* C13: for an instance whose metadata names a network, the address
\* resolved is one of that network's addresses or none at all: an instance
\* without the named network, or without an entry of the target version on
\* it, resolves to nothing and is not among the endpoints.
C13_NamedNetworkOnly ==
    pc = "listed"
        => \A i \in DOMAIN servers :
              LET s == servers[i]
                  n == _metadata_network_name(s)
              IN  n # NoneStr
                    => /\ _network_address(s) \in AddrsOn(s, n) \cup {NoneStr}
                       /\ \A j \in DOMAIN endpoints :
                             endpoints[j].hostname = s.name
                                => endpoints[j].address \in AddrsOn(s, n)

RECURSIVE Flatten(_)
Flatten(nets) == IF nets = <<>> THEN <<>> ELSE nets[1].addrs \o Flatten(Tail(nets))

C14_VersionKeys(s) ==
    {k \in DOMAIN s.metadata : ReMatch(".*endpoint.network.version$", s.metadata[k][1])}

\* the value of the metadata key for the version, "4" without such a key
C14_Target(s) ==
    IF C14_VersionKeys(s) = {} THEN "4"
    ELSE s.metadata[CHOOSE k \in C14_VersionKeys(s) :
                        \A l \in C14_VersionKeys(s) : k <= l][2]

\* the first entry of the version, in order
C14_First(version, entries) ==
    LET hits == {k \in DOMAIN entries : entries[k].version = version}
    IN  IF hits = {} THEN NoneStr
        ELSE entries[CHOOSE k \in hits : \A l \in hits : k <= l].addr

\* C14: the address resolved is the first entry, in provider order over
\* the candidate networks, whose version is the target version; the target
\* is the value of the metadata key for the version and "4" without one;
\* without a named network every network is a candidate, with a named
\* network the instance has, that network is.  The instance is among the
\* endpoints with that address when it passes the filters.
C14_FirstOfTargetVersion ==
    pc = "listed"
        => \A i \in DOMAIN servers :
              LET s == servers[i]
                  n == _metadata_network_name(s)
              IN  /\ NetworkVersion(s) = C14_Target(s)
                  /\ n = NoneStr
                        => _network_address(s) = C14_First(C14_Target(s), Flatten(s.addresses))
                  /\ (n # NoneStr /\ n \in NetworkNames(s))
                        => _network_address(s) = C14_First(C14_Target(s), NamedNetwork(s))
                  /\ (_is_endpoint_server(filters, s) = "true" /\ n = NoneStr
                        /\ C14_First(C14_Target(s), Flatten(s.addresses)) # NoneStr)
                        => \E j \in DOMAIN endpoints :
                              /\ endpoints[j].hostname = s.name
                              /\ endpoints[j].address
                                    = C14_First(C14_Target(s), Flatten(s.addresses))

\* public has a v4 entry, private a v6 entry, version 6 is asked for and no
\* network is named: the private v6 address is resolved
C14_Witness ==
    /\ pc = "listed"
    /\ filters = MainFilters("^web$", "^prod$")
    /\ Len(servers) = 1
    /\ servers[1].metadata
          = ServiceTags("prod") \o << <<"endpoint.network.version", "6">> >>
    /\ servers[1].addresses
          = << [net |-> "public", addrs |-> << Entry("4", "10.0.0.1") >>],
               [net |-> "private", addrs |-> << Entry("6", "fd00::1") >>] >>
    /\ Len(endpoints) = 1
    /\ endpoints[1].address = "fd00::1"

\* the rule passes: a name rule on the name, a metadata rule on every pair,
\* a category without a filter method always
C15_RulePasses(s, rule) ==
    CASE rule.cat = "name"     -> ReMatch(rule.name, s.name)
      [] rule.cat = "metadata" ->
            \A k \in DOMAIN rule.metadata :
               MetadataPairFilter(s.metadata, rule.metadata[k][1], rule.metadata[k][2])
                  = "true"
      [] OTHER                 -> TRUE

\* C15: an instance matches exactly when every configured rule passes: the
\* name rule if there is one and every pair of the metadata rule if there
\* is one; no rule at all, a metadata rule without pairs and a category
\* that is not known pass; the endpoints are the matching instances that
\* resolve.
C15_FilterAnd ==
    pc = "listed"
        => /\ \A i \in DOMAIN servers :
                 _is_endpoint_server(filters, servers[i]) = "true"
                    <=> \A r \in DOMAIN filters : C15_RulePasses(servers[i], filters[r])
           /\ Range(endpoints)
                 = {OsEndpoint(servers[i]) :
                      i \in {j \in DOMAIN servers :
                               /\ \A r \in DOMAIN filters :
                                     C15_RulePasses(servers[j], filters[r])
                               /\ has_address(servers[j])}}

\* the metadata rule passes and the name rule fails: no endpoint
C15_Witness ==
    /\ pc = "listed"
    /\ filters = MainFilters("^web$", "^prod$") \o << NameRule("^web-.*") >>
    /\ Len(servers) = 1
    /\ servers[1].name = "db-1"
    /\ servers[1].metadata = ServiceTags("prod")
    /\ has_address(servers[1])
    /\ endpoints = <<>>

C16_Pairs(flts) ==
    UNION {Range(flts[r].metadata) : r \in {q \in DOMAIN flts : flts[q].cat = "metadata"}}

\* the metadata keys the pair's key pattern matches
C16_Keys(md, p) == {k \in DOMAIN md : ReMatch(p[1], md[k][1])}

\* C16: a pair of the metadata rule passes only if some metadata key
\* matches the key pattern and that key's value matches the value pattern;
\* when no key matches the key pattern (empty metadata included) the pair
\* fails, the instance does not match and is not among the endpoints.
C16_KeyMandatory ==
    pc = "listed"
        => /\ \A i \in DOMAIN servers : \A p \in C16_Pairs(filters) :
                 LET md == servers[i].metadata
                 IN  /\ MetadataPairFilter(md, p[1], p[2]) = "true"
                           => \E k \in C16_Keys(md, p) : ReMatch(p[2], md[k][2])
                     /\ C16_Keys(md, p) = {}
                           => /\ MetadataPairFilter(md, p[1], p[2]) = "false"
                              /\ _is_endpoint_server(filters, servers[i]) = "false"
           /\ Len(endpoints)
                 <= Cardinality({i \in DOMAIN servers :
                                   \A p \in C16_Pairs(filters) :
                                      C16_Keys(servers[i].metadata, p) # {}})

\* an instance without metadata that has an address, under main()'s rules:
\* no endpoint
C16_Witness ==
    /\ pc = "listed"
    /\ filters = MainFilters("^web$", "^prod$")
    /\ Len(servers) = 1
    /\ servers[1].metadata = <<>>
    /\ has_address(servers[1])
    /\ endpoints = <<>>

\* C18: a diff that was computed is empty exactly when the store's current
\* list equals the candidate element by element; when the candidate extends
\* the current list ([A] against [A, B]) it reports the extra entries as
\* added and nothing as removed or changed, and the other way round as
\* removed; on an absent store no difference is computed.
C18_DiffDirection ==
    (diffed.called /\ ~diffed.raised)
        => /\ diffed.none => diffed.result = NoDiff
           /\ ~diffed.none
                 => /\ diffed.result = NoDiff <=> diffed.current = diffed.candidate
                    /\ IsPrefix(diffed.current, diffed.candidate)
                          => /\ diffed.result.added
                                   = (DOMAIN diffed.candidate) \ (DOMAIN diffed.current)
                             /\ diffed.result.removed = {}
                             /\ diffed.result.changed = {}
                    /\ IsPrefix(diffed.candidate, diffed.current)
                          => /\ diffed.result.removed
                                   = (DOMAIN diffed.current) \ (DOMAIN diffed.candidate)
                             /\ diffed.result.added = {}
                             /\ diffed.result.changed = {}

\* the current list is [A], the candidate [A, B]: B is reported as added
C18_Witness ==
    /\ diffed.called
    /\ ~diffed.none
    /\ Len(diffed.current) = 1
    /\ Len(diffed.candidate) = 2
    /\ diffed.candidate[1] = diffed.current[1]
    /\ diffed.result = [added |-> {2}, removed |-> {}, changed |-> {}]

\* C21: a cluster read that fails with an API error leaves the store absent
\* without raising, and the tick it happens in issues no patch, leaves the
\* resource alone and does not fail, so the loop goes on to the next tick.
C21_ReadErrorIsAbsent ==
    [][/\ ((MainKube \/ TickKubeRefresh) /\ srv.exists /\ ~snapshot'.exists)
            => (snapshot' = Absent /\ pc' # "crashed")
       /\ ((TickExternalRefresh \/ TickReconcile) /\ srv.exists /\ ~snapshot.exists)
            => (pc' # "crashed" /\ tickPatch' = NoPatch /\ srv' = srv)]_vars

\* C22: when instances pass the filters and none of them resolves, the
\* refreshed inventory is empty and counts as empty, and a tick with an
\* empty resolved list is skipped for it: no patch, the resource untouched.
C22_GuardOnResolved ==
    /\ [][(/\ TickExternalRefresh
            /\ pc' = "external_fetched"
            /\ C12_Matching(filters, servers) # {}
            /\ C12_Unresolved(filters, servers) = C12_Matching(filters, servers))
              => (endpoints' = <<>> /\ ~ExternalBool(endpoints'))]_vars
    /\ [][(TickReconcile /\ snapshot.exists /\ endpoints = <<>>)
              => /\ report'.verdict = "skip_external"
                 /\ tickPatch' = NoPatch
                 /\ srv' = srv]_vars

\* the provider lists only web-3, which passes the filters and does not
\* resolve, the resource holds an address, and the tick was skipped
C22_Witness ==
    /\ report.verdict = "skip_external"
    /\ pc = "sleep"
    /\ servers = <<Web3>>
    /\ _is_endpoint_server(filters, Web3) = "true"
    /\ endpoints = <<>>
    /\ snapshot = srv
    /\ srv.subsets # <<>>
    /\ srv.subsets[1].addresses # <<>>

\* C23: a tick's refresh that finds the resource, whatever its subsets,
\* gets a list from addresses() and the tick goes on without failure.
C23_ExistingResourceHasAddresses ==
    [][(TickKubeRefresh /\ snapshot'.exists)
          => (KubeAddresses(snapshot').ok /\ pc' = "kube_fetched")]_vars

\* the two sequences hold the same key/value pairs
SameMapping(a, b) == Len(a) = Len(b) /\ Range(a) = Range(b)

\* the instances that differ from s in the order of the metadata only
C24_Reordered(s) ==
    {t \in Instances : /\ t.name = s.name
                       /\ t.compute_host = s.compute_host
                       /\ t.addresses = s.addresses
                       /\ SameMapping(t.metadata, s.metadata)}

\* the instance gets the same verdict and the same resolution as s
C24_SameOutcome(flts, s, t) ==
    /\ _is_endpoint_server(flts, t) = _is_endpoint_server(flts, s)
    /\ _metadata_network_name(t) = _metadata_network_name(s)
    /\ NetworkVersion(t) = NetworkVersion(s)
    /\ _network_address(t) = _network_address(s)
    /\ _endpoint_list(flts, <<t>>) = _endpoint_list(flts, <<s>>)

\* C24 as stated: an instance listed gets the verdict and the resolved
\* network name and version of every instance with the same metadata pairs
\* in another order, also when several keys match one key pattern.
C24_OrderIndependent ==
    pc = "listed"
        => \A i \in DOMAIN servers : \A t \in C24_Reordered(servers[i]) :
              C24_SameOutcome(filters, servers[i], t)

\* the key patterns the program matches metadata keys against
C24_KeyPatterns(flts) ==
    {p[1] : p \in C16_Pairs(flts)}
        \cup {".*endpoint.network.name$", ".*endpoint.network.version$"}

\* the keys matching one pattern all carry the same value
C24_SingleValued(flts, md) ==
    \A kp \in C24_KeyPatterns(flts) :
       Cardinality({md[k][2] : k \in {j \in DOMAIN md : ReMatch(kp, md[j][1])}}) <= 1

\* C24 as amended: the verdict and the resolution do not depend on the
\* order of the metadata keys when the keys matching any one key pattern
\* carry the same value; among several matching keys with different values
\* the first in iteration order decides.
C24_OrderIndependentWhenSingleValued ==
    pc = "listed"
        => \A i \in DOMAIN servers :
              /\ C24_SingleValued(filters, servers[i].metadata)
                    => \A t \in C24_Reordered(servers[i]) :
                          C24_SameOutcome(filters, servers[i], t)
              /\ \A p \in C16_Pairs(filters) :
                    LET md == servers[i].metadata
                    IN  C16_Keys(md, p) # {}
                          => (MetadataPairFilter(md, p[1], p[2]) = "true"
                                <=> ReMatch(p[2], md[CHOOSE k \in C16_Keys(md, p) :
                                                  \A l \in C16_Keys(md, p) : k <= l][2]))

\* an instance listed with service.namespace before service.name: it is an
\* endpoint as the instance with the keys the other way round is
C24_Witness ==
    /\ pc = "listed"
    /\ filters = MainFilters("^web$", "^prod$")
    /\ Len(servers) = 1
    /\ servers[1].metadata = << <<"service.namespace", "prod">>, <<"service.name", "web">> >>
    /\ Cardinality(C24_Reordered(servers[1])) = 2
    /\ Len(endpoints) = 1

\* the first construction of the class among the constructions so far
C25_First(cls) ==
    CHOOSE j \in DOMAIN built :
       built[j].cls = cls /\ \A l \in DOMAIN built : built[l].cls = cls => j <= l

\* C25: every construction of a class returns the instance the first
\* construction of that class created, whose __init__ ran with the first
\* call's arguments; the class has one instance and later arguments are
\* ignored.
C25_ConstructedOnce ==
    \A i \in DOMAIN built :
       LET f == C25_First(built[i].cls)
       IN  /\ built[i].got = NewInstance(built[f].args, f)
           /\ built[i].got = built[f].got
           /\ instances[built[i].cls] = built[f].got

\* a class constructed a second time with other arguments: the caller got
\* the first instance
C25_Witness ==
    /\ Len(built) = 3
    /\ built[1].cls = built[3].cls
    /\ built[1].args # built[3].args
    /\ built[3].got = built[1].got
    /\ built[3].got.args = built[1].args

====
